---- MODULE Spec2Model ----
(***************************************************************************)
(* Registration service: the in-memory user store (server/storage.ts), the *)
(* insert schema (shared/schema.ts) and the two HTTP handlers             *)
(* POST /api/verify-email and POST /api/register (server routes).          *)
(*                                                                         *)
(* Strings that the code inspects (names, emails, passwords) are sequences *)
(* of one-character strings; messages are sequences of words.  A handler   *)
(* runs on the Node event loop: the code between two awaits that wait for  *)
(* I/O (the axios call, the bcrypt thread pool) is one atomic action.      *)
(***************************************************************************)
EXTENDS Integers, Sequences, FiniteSets, TLC

VARIABLES users, reqs, clock

(* The registration form (client page Registration): its useState cells, *)
(* the values and state of the react-hook-form form, the calls of its two *)
(* mutations that are in flight, and the toast it last showed.  verified  *)
(* records the email that the verification endpoint last answered valid.  *)
VARIABLES showPassword, emailStatus, passwordStrength, termsAccepted,
          values, errors, isSubmitted, verifying, registering, toast, verified

serverVars == <<users, reqs, clock>>

formVars == <<showPassword, emailStatus, passwordStrength, termsAccepted,
              values, errors, isSubmitted, verifying, registering, toast, verified>>

vars == <<users, reqs, clock, showPassword, emailStatus, passwordStrength,
          termsAccepted, values, errors, isSubmitted, verifying, registering,
          toast, verified>>

(* Number of HTTP requests (of either endpoint) the server handles in a run. *)
MaxRequests == 2

(* Number of verification calls the form has in flight at one time. *)
MaxInFlight == 2

-----------------------------------------------------------------------------
(* Characters and strings *)

LowerSeq == <<"a","b","c","d","e","f","g","h","i","j","k","l","m",
              "n","o","p","q","r","s","t","u","v","w","x","y","z">>

UpperSeq == <<"A","B","C","D","E","F","G","H","I","J","K","L","M",
              "N","O","P","Q","R","S","T","U","V","W","X","Y","Z">>

Range(s) == {s[i] : i \in DOMAIN s}

Lower == Range(LowerSeq)

Upper == Range(UpperSeq)

Letters == Lower \cup Upper

Digits == {"0","1","2","3","4","5","6","7","8","9"}

AlphaNum == Letters \cup Digits

(* String.prototype.toLowerCase on one character, then on a string. *)
ToLowerChar(c) ==
    IF c \in Upper THEN LowerSeq[CHOOSE i \in DOMAIN UpperSeq : UpperSeq[i] = c]
    ELSE c

toLowerCase(s) == [i \in DOMAIN s |-> ToLowerChar(s[i])]

(* String.prototype.includes on word sequences: `part` occurs contiguously in `s`. *)
Includes(s, part) ==
    \E k \in 0..(Len(s) - Len(part)) :
        \A i \in 1..Len(part) : s[k + i] = part[i]

-----------------------------------------------------------------------------
(* shared/schema.ts: insertUserSchema *)

MinNameLen == 2

MinPasswordLen == 8

(* Positions of "." in s, with 0 and Len(s)+1 as sentinels, delimit the labels. *)
Labels(s) ==
    LET dots == {i \in DOMAIN s : s[i] = "."}
        cuts == dots \cup {0, Len(s) + 1}
    IN  {SubSeq(s, a + 1, b - 1) : <<a, b>> \in
            {p \in cuts \X cuts : /\ p[1] < p[2]
                                  /\ \A c \in cuts : ~(p[1] < c /\ c < p[2])}}

LastLabel(s) ==
    LET dots == {i \in DOMAIN s : s[i] = "."}
        last == IF dots = {} THEN 0 ELSE CHOOSE d \in dots : \A e \in dots : e <= d
    IN  SubSeq(s, last + 1, Len(s))

(* z.string().email(): zod's email pattern, matched case-insensitively.  *)
(* Local part: characters from letters, digits and _ ' + - . ; it does not *)
(* start with a dot and ends in a letter, digit, _ + or - .  No two dots   *)
(* are adjacent anywhere.  Domain: one or more labels, each a letter or    *)
(* digit followed by letters, digits or hyphens and closed by a dot, then  *)
(* a top-level label of two or more letters.                               *)
IsEmail(s) ==
    \E at \in DOMAIN s :
        LET local  == SubSeq(s, 1, at - 1)
            domain == SubSeq(s, at + 1, Len(s))
        IN  /\ s[at] = "@"
            /\ Len(local) >= 1
            /\ local[1] # "."
            /\ \A i \in 1..(Len(s) - 1) : ~(s[i] = "." /\ s[i + 1] = ".")
            /\ \A i \in DOMAIN local : local[i] \in AlphaNum \cup {"_", "'", "+", "-", "."}
            /\ local[Len(local)] \in AlphaNum \cup {"_", "+", "-"}
            /\ Len(domain) >= 1
            /\ domain[Len(domain)] # "."
            /\ Cardinality({i \in DOMAIN domain : domain[i] = "."}) >= 1
            /\ \A l \in Labels(domain) :
                   /\ Len(l) >= 1
                   /\ l[1] \in AlphaNum
                   /\ \A i \in DOMAIN l : l[i] \in AlphaNum \cup {"-"}
            /\ LET tld == LastLabel(domain)
               IN  /\ Len(tld) >= 2
                   /\ \A i \in DOMAIN tld : tld[i] \in Letters

(* The fields of a request body that the schema rejects (ZodError.errors).  *)
(* A field that is absent from the body fails as "Required".               *)
NameOk(body) == "name" \in DOMAIN body /\ Len(body.name) >= MinNameLen

EmailOk(body) == "email" \in DOMAIN body /\ IsEmail(body.email)

PasswordOk(body) == "password" \in DOMAIN body /\ Len(body.password) >= MinPasswordLen

(* The schema with the password rule left out. *)
ZodIssuesNoPassword(body) ==
    {f \in {"name", "email"} :
        \/ f = "name" /\ ~NameOk(body)
        \/ f = "email" /\ ~EmailOk(body)}

ZodIssues(body) ==
    {f \in {"name", "email", "password"} :
        \/ f = "name" /\ ~NameOk(body)
        \/ f = "email" /\ ~EmailOk(body)
        \/ f = "password" /\ ~PasswordOk(body)}

(* z.object({ email: z.string().email() }) of the verify-email endpoint. *)
VerifyZodIssues(body) == {f \in {"email"} : ~EmailOk(body)}

-----------------------------------------------------------------------------
(* Inputs *)

NameShort == <<"J">>

NameGood == <<"J", "o">>

PasswordShort == <<"S", "t", "r", "0", "n", "g", "!">>

PasswordGood == <<"S", "t", "r", "0", "n", "g", "!", "P">>

EmailLower == <<"a", "@", "b", ".", "i", "o">>

EmailUpper == <<"A", "@", "B", ".", "i", "o">>

EmailOther == <<"c", "@", "b", ".", "i", "o">>

EmailBad == <<"a", "@", "b">>

Emails == {EmailLower, EmailUpper, EmailOther, EmailBad}

Body(name, email, password) == [name |-> name, email |-> email, password |-> password]

(* Bodies of POST /api/register: a body with a good name and password   *)
(* for each sample email (one of them malformed), bodies with a short    *)
(* name, a short password or every field invalid, and a body without an  *)
(* email field.                                                          *)
RegisterBodies ==
    {Body(NameGood, e, PasswordGood) : e \in Emails}
        \cup {Body(NameShort, EmailLower, PasswordGood),
              Body(NameGood, EmailLower, PasswordShort),
              Body(NameShort, EmailBad, PasswordShort),
              [name |-> NameGood, password |-> PasswordGood]}

(* Bodies of POST /api/verify-email. *)
VerifyBodies == [email : {EmailLower, EmailUpper, EmailBad}] \cup {[other |-> NameGood]}

(* What the outbound call to the verification provider can produce: it  *)
(* throws (network error, non-2xx status, timeout), or it yields a      *)
(* response whose data is a verdict.                                     *)
ApiOutcomes ==
    {[ok |-> FALSE]} \cup
    {[ok |-> TRUE, data |-> d] : d \in
        {[isTemporary |-> FALSE, isValid |-> TRUE],
         [isTemporary |-> TRUE, isValid |-> TRUE, risks |-> <<"disposable">>],
         [isTemporary |-> FALSE, isValid |-> FALSE, risks |-> <<"no_mx">>],
         [isTemporary |-> TRUE, isValid |-> FALSE]}}

-----------------------------------------------------------------------------
(* server/storage.ts: MemStorage *)

BcryptCost == 12

(* bcrypt.hash(password, 12): a salted hash, never the plaintext. *)
BcryptHash(password) == [alg |-> "bcrypt", cost |-> BcryptCost, of |-> password]

DuplicateMessage == <<"An", "account", "with", "this", "email", "already", "exists">>

HashErrorMessage == <<"bcrypt", "hash", "failed">>

Values(us) == {us[id] : id \in DOMAIN us}

(* The lookup comparing the emails as written, case included. *)
getUserByEmailExact(us, email) == {u \in Values(us) : u.email = email}

(* getUserByEmail: the records whose email equals `email` ignoring case *)
(* (the code returns the first of them, or undefined when none).        *)
getUserByEmail(us, email) ==
    {u \in Values(us) : toLowerCase(u.email) = toLowerCase(email)}

(* randomUUID(): an identifier no stored record has. *)
randomUUID(us) == Cardinality(DOMAIN us) + 1

(* The record createUser builds once the hash is available. *)
NewUser(id, insertUser, hashedPassword, now) ==
    [id |-> id,
     name |-> insertUser.name,
     email |-> insertUser.email,
     password |-> hashedPassword,
     verified |-> FALSE,
     createdAt |-> now]

(* this.users.set(id, user) *)
MapSet(us, id, user) == [k \in DOMAIN us \cup {id} |-> IF k = id THEN user ELSE us[k]]

-----------------------------------------------------------------------------
(* server routes: verifyEmailWithCleanSignups *)

PermissiveOnError ==
    [isTemporary |-> FALSE, isValid |-> TRUE, error |-> <<"Network", "Error">>]

StrictOnError ==
    [isTemporary |-> FALSE, isValid |-> FALSE, error |-> <<"Network", "Error">>]

(* The client failing closed: an outage yields an invalid verdict. *)
verifyEmailFailClosed(outcome) ==
    IF outcome.ok THEN outcome.data ELSE StrictOnError

(* try { return (await axios.post(...)).data } catch { permissive verdict } *)
verifyEmailWithCleanSignups(outcome) ==
    IF outcome.ok THEN outcome.data ELSE PermissiveOnError

(* The test with the isValid half left out. *)
FlaggedTemporaryOnly(result) == result.isTemporary

(* if (result.isTemporary || !result.isValid) *)
Flagged(result) == result.isTemporary \/ ~result.isValid

-----------------------------------------------------------------------------
(* Requests in flight and answered.  A request keeps, besides the locals of *)
(* its handler, a record of what it did: the outbound calls and store calls *)
(* it made (trace), the requests that had been answered when it arrived     *)
(* (prior), and the identifier under which it stored a record (inserted).   *)

NoResult == [none |-> TRUE]

NoError == [type |-> "none"]

NoJson == [none |-> TRUE]

NewRequest(kind, body) ==
    [kind |-> kind,
     body |-> body,
     pc |-> "start",
     prior |-> {j \in DOMAIN reqs : reqs[j].pc = "done"},
     api |-> "none",
     result |-> NoResult,
     error |-> NoError,
     status |-> 0,
     json |-> NoJson,
     trace |-> <<>>,
     inserted |-> 0]

(* res.status(s).json(j): the request is answered. *)
Respond(r, reply) == [r EXCEPT !.pc = "done", !.status = reply.status, !.json = reply.json]

(* The call sent twice, as a retry would. *)
CallVerifierTwice(r) ==
    [r EXCEPT !.pc = "verifying", !.trace = Append(Append(@, "verify"), "verify")]

(* await verifyEmailWithCleanSignups(email): axios.post sends the request. *)
CallVerifier(r) == [r EXCEPT !.pc = "verifying", !.trace = Append(@, "verify")]

(* The call settles with `outcome`; the handler resumes with the verdict. *)
VerifierSettled(r, outcome) ==
    [r EXCEPT !.api = IF outcome.ok THEN "answered" ELSE "failed",
              !.result = verifyEmailWithCleanSignups(outcome)]

-----------------------------------------------------------------------------
(* POST /api/verify-email *)

VerifyEmailCatch ==
    [status |-> 500,
     json |-> [message |-> <<"Unable", "to", "verify", "email", "at", "this", "time">>]]

(* The reply that tests isTemporary alone. *)
VerifyEmailReplyTemporaryOnly(result) ==
    IF result.isTemporary
    THEN [status |-> 400,
          json |-> [message |-> <<"Please", "use", "a", "valid", "email", "address">>,
                    isTemporary |-> result.isTemporary,
                    isValid |-> result.isValid,
                    risks |-> IF "risks" \in DOMAIN result THEN result.risks ELSE <<>>]]
    ELSE [status |-> 200,
          json |-> [message |-> <<"Email", "is", "valid">>,
                    isValid |-> TRUE,
                    isTemporary |-> FALSE]]

VerifyEmailReply(result) ==
    IF Flagged(result)
    THEN [status |-> 400,
          json |-> [message |-> <<"Please", "use", "a", "valid", "email", "address">>,
                    isTemporary |-> result.isTemporary,
                    isValid |-> result.isValid,
                    risks |-> IF "risks" \in DOMAIN result THEN result.risks ELSE <<>>]]
    ELSE [status |-> 200,
          json |-> [message |-> <<"Email", "is", "valid">>,
                    isValid |-> TRUE,
                    isTemporary |-> FALSE]]

(* The request arrives: the body is parsed; a parse failure goes to the *)
(* catch block, otherwise the verifier is called.                       *)
VerifyEmailStart(body) ==
    /\ Len(reqs) < MaxRequests
    /\ LET r == NewRequest("verify", body)
           issues == VerifyZodIssues(body)
       IN  reqs' = Append(reqs,
               IF issues # {}
               THEN Respond([r EXCEPT !.error = [type |-> "ZodError", errors |-> issues]],
                            VerifyEmailCatch)
               ELSE CallVerifier(r))
    /\ UNCHANGED <<users, clock>>

(* The verifier call settles and the handler answers. *)
VerifyEmailVerified(i, outcome) ==
    /\ reqs[i].kind = "verify"
    /\ reqs[i].pc = "verifying"
    /\ LET r == VerifierSettled(reqs[i], outcome)
       IN  reqs' = [reqs EXCEPT ![i] = Respond(r, VerifyEmailReply(r.result))]
    /\ UNCHANGED <<users, clock>>

-----------------------------------------------------------------------------
(* POST /api/register *)

(* The catch block of the handler. *)
RegisterCatch(error) ==
    IF error.type = "ZodError"
    THEN [status |-> 400,
          json |-> [message |-> <<"Validation", "failed">>, errors |-> error.errors]]
    ELSE IF error.type = "Error"
    THEN IF Includes(error.message, <<"email", "already", "exists">>)
         THEN [status |-> 409, json |-> [message |-> error.message, field |-> "email"]]
         ELSE [status |-> 400, json |-> [message |-> error.message]]
    ELSE [status |-> 500,
          json |-> [message |-> <<"Registration", "failed.", "Please", "try", "again.">>]]

RegisterFlaggedReply ==
    [status |-> 400,
     json |-> [message |-> <<"Please", "use", "a", "valid", "email", "address.">>,
               field |-> "email"]]

(* The record returned as stored. *)
KeepPassword(user) == user

(* const { password, ...userResponse } = user *)
WithoutPassword(user) == [f \in DOMAIN user \ {"password"} |-> user[f]]

RegisterCreatedReply(user) ==
    [status |-> 201,
     json |-> [message |-> <<"Registration", "successful">>, user |-> WithoutPassword(user)]]

(* Throwing `error` inside the try block: the catch block answers. *)
RegisterThrow(r, error) == Respond([r EXCEPT !.error = error], RegisterCatch(error))

(* The request arrives: insertUserSchema.parse(req.body), then the call *)
(* to the verifier.                                                      *)
RegisterStart(body) ==
    /\ Len(reqs) < MaxRequests
    /\ LET r == NewRequest("register", body)
           issues == ZodIssues(body)
       IN  reqs' = Append(reqs,
               IF issues # {}
               THEN RegisterThrow(r, [type |-> "ZodError", errors |-> issues])
               ELSE CallVerifier(r))
    /\ UNCHANGED <<users, clock>>

(* The verifier call settles.  A flagged email is answered with 400.    *)
(* Otherwise storage.createUser runs up to its await of bcrypt.hash:    *)
(* getUserByEmail reads the map, and an existing record makes it throw. *)
RegisterVerified(i, outcome) ==
    /\ reqs[i].kind = "register"
    /\ reqs[i].pc = "verifying"
    /\ LET r == VerifierSettled(reqs[i], outcome)
           c == [r EXCEPT !.trace = Append(@, "createUser")]
           existingUser == getUserByEmail(users, r.body.email)
       IN  reqs' = [reqs EXCEPT ![i] =
               IF Flagged(r.result) THEN Respond(r, RegisterFlaggedReply)
               ELSE IF existingUser # {}
               THEN RegisterThrow(c, [type |-> "Error", message |-> DuplicateMessage])
               ELSE [c EXCEPT !.pc = "hashing"]]
    /\ UNCHANGED <<users, clock>>

(* bcrypt.hash settles.  On success createUser stores the record and the *)
(* handler answers 201; a rejection is thrown into the catch block.      *)
RegisterHashed(i, hashOk) ==
    /\ reqs[i].kind = "register"
    /\ reqs[i].pc = "hashing"
    /\ LET r == reqs[i]
           id == randomUUID(users)
           user == NewUser(id, r.body, BcryptHash(r.body.password), clock)
       IN  IF hashOk
           THEN /\ users' = MapSet(users, id, user)
                /\ clock' = clock + 1
                /\ reqs' = [reqs EXCEPT ![i] =
                       Respond([r EXCEPT !.inserted = id], RegisterCreatedReply(user))]
           ELSE /\ reqs' = [reqs EXCEPT ![i] =
                       RegisterThrow(r, [type |-> "Error", message |-> HashErrorMessage])]
                /\ UNCHANGED <<users, clock>>

-----------------------------------------------------------------------------
(* Client page Registration: the form controller *)

EmptyString == <<>>

(* useForm defaultValues *)
DefaultValues == [name |-> EmptyString, email |-> EmptyString, password |-> EmptyString]

(* What the user can put into the fields. *)
FormNames == {EmptyString, NameGood}

FormEmails == {EmptyString, EmailLower, EmailOther, EmailBad}

PasswordLower == <<"a", "b", "c">>

FormPasswords == {EmptyString, PasswordLower, PasswordShort, PasswordGood}

(* A mutation's mutationFn settles by resolving or by rejecting.  The     *)
(* verify-email endpoint answers a malformed email with an error status, *)
(* so such a call never resolves.                                        *)
VerifyOutcomes(email) ==
    IF VerifyZodIssues([email |-> email]) = {} THEN {"success", "error"} ELSE {"error"}

RegisterOutcomes == {"success", "error"}

(* The score with the digit check left out. *)
calculatePasswordStrengthNoDigit(password) ==
    LET s1 == IF Len(password) >= 8 THEN 1 ELSE 0
        s2 == IF \E i \in DOMAIN password : password[i] \in Lower THEN s1 + 1 ELSE s1
        s3 == IF \E i \in DOMAIN password : password[i] \in Upper THEN s2 + 1 ELSE s2
        s5 == IF \E i \in DOMAIN password : password[i] \notin AlphaNum THEN s3 + 1 ELSE s3
    IN  s5

(* calculatePasswordStrength: strength starts at 0 and is incremented by *)
(* each of the five tests in turn.                                        *)
calculatePasswordStrength(password) ==
    LET s1 == IF Len(password) >= 8 THEN 1 ELSE 0
        s2 == IF \E i \in DOMAIN password : password[i] \in Lower THEN s1 + 1 ELSE s1
        s3 == IF \E i \in DOMAIN password : password[i] \in Upper THEN s2 + 1 ELSE s2
        s4 == IF \E i \in DOMAIN password : password[i] \in Digits THEN s3 + 1 ELSE s3
        s5 == IF \E i \in DOMAIN password : password[i] \notin AlphaNum THEN s4 + 1 ELSE s4
    IN  s5

(* react-hook-form, mode onSubmit: once the form was submitted, a change *)
(* made through field.onChange validates the field again.                 *)
Revalidate(errs, field, vals) ==
    IF ~isSubmitted THEN errs
    ELSE IF field \in ZodIssues(vals) THEN errs \cup {field} ELSE errs \ {field}

(* The calls of emailVerificationMutation in flight: how many there are *)
(* for each email.  Any of them may settle next.                         *)
NoCalls == [e \in FormEmails \ {EmptyString} |-> 0]

InFlight(calls) ==
    Cardinality({c \in (DOMAIN calls) \X (1..(MaxInFlight + 1)) : c[2] <= calls[c[1]]})

FormInit ==
    /\ showPassword = FALSE
    /\ emailStatus = "idle"
    /\ passwordStrength = 0
    /\ termsAccepted = FALSE
    /\ values = DefaultValues
    /\ errors = {}
    /\ isSubmitted = FALSE
    /\ verifying = NoCalls
    /\ registering = <<>>
    /\ toast = "none"
    /\ verified = EmptyString

(* The name input: {...field} *)
NameChange(value) ==
    /\ values' = [values EXCEPT !.name = value]
    /\ errors' = Revalidate(errors, "name", values')
    /\ UNCHANGED <<showPassword, emailStatus, passwordStrength, termsAccepted,
                   isSubmitted, verifying, registering, toast, verified>>

(* The email input: {...field}; its onBlur is handleEmailBlur. *)
EmailChange(value) ==
    /\ values' = [values EXCEPT !.email = value]
    /\ errors' = Revalidate(errors, "email", values')
    /\ UNCHANGED <<showPassword, emailStatus, passwordStrength, termsAccepted,
                   isSubmitted, verifying, registering, toast, verified>>

(* handlePasswordChange: the onChange of the password input. *)
handlePasswordChange(value) ==
    /\ passwordStrength' = calculatePasswordStrength(value)
    /\ values' = [values EXCEPT !.password = value]
    /\ UNCHANGED <<showPassword, emailStatus, termsAccepted, errors,
                   isSubmitted, verifying, registering, toast, verified>>

(* The eye button: setShowPassword(!showPassword) *)
ToggleShowPassword ==
    /\ showPassword' = ~showPassword
    /\ UNCHANGED <<emailStatus, passwordStrength, termsAccepted, values, errors,
                   isSubmitted, verifying, registering, toast, verified>>

(* The terms checkbox: setTermsAccepted(checked) *)
TermsChange(checked) ==
    /\ checked # termsAccepted
    /\ termsAccepted' = checked
    /\ UNCHANGED <<showPassword, emailStatus, passwordStrength, values, errors,
                   isSubmitted, verifying, registering, toast, verified>>

(* The blur that starts the call and leaves the status as it was. *)
handleEmailBlurKeepStatus ==
    /\ InFlight(verifying) < MaxInFlight
    /\ values.email # EmptyString
    /\ "email" \notin errors
    /\ verifying' = [verifying EXCEPT ![values.email] = @ + 1]
    /\ UNCHANGED <<showPassword, emailStatus, passwordStrength, termsAccepted, values,
                   errors, isSubmitted, registering, toast, verified>>

(* handleEmailBlur: a non-empty email without a field error is sent to *)
(* the verification endpoint.                                           *)
handleEmailBlur ==
    /\ InFlight(verifying) < MaxInFlight
    /\ values.email # EmptyString
    /\ "email" \notin errors
    /\ emailStatus' = "validating"
    /\ verifying' = [verifying EXCEPT ![values.email] = @ + 1]
    /\ UNCHANGED <<showPassword, passwordStrength, termsAccepted, values, errors,
                   isSubmitted, registering, toast, verified>>

(* emailVerificationMutation: a call in flight for `email` settles;   *)
(* onSuccess and onError run for every call, whichever was made last.  *)
VerifySettled(email, outcome) ==
    /\ verifying[email] > 0
    /\ outcome \in VerifyOutcomes(email)
    /\ verifying' = [verifying EXCEPT ![email] = @ - 1]
    /\ emailStatus' = IF outcome = "success" THEN "valid" ELSE "invalid"
    /\ verified' = IF outcome = "success" THEN email ELSE verified
    /\ UNCHANGED <<showPassword, passwordStrength, termsAccepted, values, errors,
                   isSubmitted, registering, toast>>

(* onSubmit without the terms test. *)
onSubmitNoTerms(data) ==
    IF emailStatus # "valid"
    THEN toast' = "Email Verification Required" /\ UNCHANGED registering
    ELSE registering' = <<data>> /\ UNCHANGED toast

(* onSubmit: two blocking toasts, then registrationMutation.mutate(data). *)
onSubmit(data) ==
    IF ~termsAccepted
    THEN toast' = "Terms Required" /\ UNCHANGED registering
    ELSE IF emailStatus # "valid"
    THEN toast' = "Email Verification Required" /\ UNCHANGED registering
    ELSE registering' = <<data>> /\ UNCHANGED toast

(* The submit button, disabled while the registration is pending:       *)
(* form.handleSubmit(onSubmit) validates the values with the schema and *)
(* calls onSubmit only when they pass.                                   *)
Submit ==
    /\ registering = <<>>
    /\ isSubmitted' = TRUE
    /\ errors' = ZodIssues(values)
    /\ IF errors' = {} THEN onSubmit(values) ELSE UNCHANGED <<registering, toast>>
    /\ UNCHANGED <<showPassword, emailStatus, passwordStrength, termsAccepted,
                   values, verifying, verified>>

(* registrationMutation.onSuccess: toast, form.reset() and three setters. *)
onRegistrationSuccess ==
    /\ toast' = "Registration Successful!"
    /\ values' = DefaultValues
    /\ errors' = {}
    /\ isSubmitted' = FALSE
    /\ emailStatus' = "idle"
    /\ passwordStrength' = 0
    /\ termsAccepted' = FALSE
    /\ UNCHANGED <<showPassword, verifying, verified>>

(* registrationMutation.onError *)
onRegistrationError ==
    /\ toast' = "Registration Failed"
    /\ UNCHANGED <<showPassword, emailStatus, passwordStrength, termsAccepted,
                   values, errors, isSubmitted, verifying, verified>>

(* The registration call settles. *)
RegisterSettled(outcome) ==
    /\ registering # <<>>
    /\ registering' = <<>>
    /\ IF outcome = "success" THEN onRegistrationSuccess ELSE onRegistrationError

-----------------------------------------------------------------------------

Init ==
    /\ users = <<>>
    /\ reqs = <<>>
    /\ clock = 1
    /\ FormInit

(* The server handling requests. *)
Next ==
    \/ \E body \in VerifyBodies : VerifyEmailStart(body) /\ UNCHANGED formVars
    \/ \E i \in DOMAIN reqs, outcome \in ApiOutcomes :
           VerifyEmailVerified(i, outcome) /\ UNCHANGED formVars
    \/ \E body \in RegisterBodies : RegisterStart(body) /\ UNCHANGED formVars
    \/ \E i \in DOMAIN reqs, outcome \in ApiOutcomes :
           RegisterVerified(i, outcome) /\ UNCHANGED formVars
    \/ \E i \in DOMAIN reqs, hashOk \in BOOLEAN :
           RegisterHashed(i, hashOk) /\ UNCHANGED formVars

Spec == Init /\ [][Next]_vars

(* The form handling user events and the answers to its calls. *)
FormNext ==
    \/ \E value \in FormNames : NameChange(value) /\ UNCHANGED serverVars
    \/ \E value \in FormEmails : EmailChange(value) /\ UNCHANGED serverVars
    \/ \E value \in FormPasswords : handlePasswordChange(value) /\ UNCHANGED serverVars
    \/ ToggleShowPassword /\ UNCHANGED serverVars
    \/ \E checked \in BOOLEAN : TermsChange(checked) /\ UNCHANGED serverVars
    \/ handleEmailBlur /\ UNCHANGED serverVars
    \/ \E email \in DOMAIN verifying, outcome \in {"success", "error"} :
           VerifySettled(email, outcome) /\ UNCHANGED serverVars
    \/ Submit /\ UNCHANGED serverVars
    \/ \E outcome \in RegisterOutcomes : RegisterSettled(outcome) /\ UNCHANGED serverVars

FormSpec == Init /\ [][FormNext]_vars

-----------------------------------------------------------------------------
(* Vocabulary of the properties *)

Registers == {i \in DOMAIN reqs : reqs[i].kind = "register"}

Verifies == {i \in DOMAIN reqs : reqs[i].kind = "verify"}

Done(i) == reqs[i].pc = "done"

(* The body of request i has a name of 2 or more characters, a valid *)
(* email and a password of 8 or more characters.                     *)
SchemaValid(i) ==
    LET b == reqs[i].body
    IN  /\ {"name", "email", "password"} \subseteq DOMAIN b
        /\ Len(b.name) >= 2
        /\ IsEmail(b.email)
        /\ Len(b.password) >= 8

(* The verdict v is temporary or invalid. *)
VerdictFlags(v) == v.isTemporary \/ ~v.isValid

(* The verifier call of request i has settled with a verdict that passes. *)
VerdictPasses(i) == reqs[i].api # "none" /\ ~VerdictFlags(reqs[i].result)

(* The verifier itself answered request i, and its answer flags the email. *)
VerifierFlags(i) == reqs[i].api = "answered" /\ VerdictFlags(reqs[i].result)

IsDuplicateError(e) == e.type = "Error" /\ e.message = DuplicateMessage

IsHashError(e) == e.type = "Error" /\ e.message = HashErrorMessage

SameEmail(i, j) == toLowerCase(reqs[i].body.email) = toLowerCase(reqs[j].body.email)

Count(seq, x) == Cardinality({k \in DOMAIN seq : seq[k] = x})

(* Request i is answered by the step from the current state to the next. *)
AnsweredNow(i) ==
    /\ i \in DOMAIN reqs'
    /\ reqs'[i].pc = "done"
    /\ (i \in DOMAIN reqs => reqs[i].pc # "done")

-----------------------------------------------------------------------------
(* C1: the store never holds two records whose emails are equal ignoring *)
(* case, under any interleaving of concurrently handled requests.        *)
C1_UniqueEmails ==
    \A a, b \in DOMAIN users :
        a # b => toLowerCase(users[a].email) # toLowerCase(users[b].email)

-----------------------------------------------------------------------------
(* C2: two schema-valid register requests with the same email (ignoring   *)
(* case), the second arriving after the first was answered, both with a    *)
(* verdict that passes, no other request registering that email, hashing   *)
(* succeeding: the first is answered 201, the second 409, and the second   *)
(* stores nothing and the step that answers it leaves the store as it was. *)
C2_Sequential(i, j) ==
    /\ i \in Registers /\ j \in Registers
    /\ i \in reqs[j].prior
    /\ SchemaValid(i) /\ SchemaValid(j)
    /\ SameEmail(i, j)
    /\ VerdictPasses(i)
    /\ ~IsHashError(reqs[i].error)
    /\ \A k \in Registers \ {i, j} : SchemaValid(k) => ~SameEmail(k, i)

C2_State ==
    \A i, j \in DOMAIN reqs :
        C2_Sequential(i, j) =>
            /\ reqs[i].status = 201
            /\ (VerdictPasses(j) => Done(j) /\ reqs[j].status = 409 /\ reqs[j].inserted = 0)

C2_Step ==
    \A j \in Registers :
        (AnsweredNow(j) /\ reqs'[j].status = 409) => users' = users

C2_TwiceGives201Then409 == []C2_State /\ [][C2_Step]_vars

C2_Witness ==
    \E i, j \in DOMAIN reqs :
        /\ C2_Sequential(i, j)
        /\ reqs[i].body.email # reqs[j].body.email
        /\ reqs[i].status = 201
        /\ reqs[j].status = 409

-----------------------------------------------------------------------------
(* C3: a register request whose name is shorter than 2 characters, whose *)
(* email is not a valid address or whose password is shorter than 8      *)
(* characters is answered 400 without the verifier being asked, and no   *)
(* record is created: the step that answers it leaves the store as it was. *)
C3_Invalid(body) ==
    \/ "name" \in DOMAIN body /\ Len(body.name) < 2
    \/ ~("email" \in DOMAIN body /\ IsEmail(body.email))
    \/ "password" \in DOMAIN body /\ Len(body.password) < 8

C3_State ==
    \A i \in Registers :
        C3_Invalid(reqs[i].body) =>
            /\ Done(i)
            /\ reqs[i].status = 400
            /\ reqs[i].inserted = 0
            /\ reqs[i].trace = <<>>

C3_Step ==
    \A i \in DOMAIN reqs' :
        (reqs'[i].kind = "register" /\ AnsweredNow(i) /\ C3_Invalid(reqs'[i].body))
            => users' = users

C3_InvalidInputGives400 == []C3_State /\ [][C3_Step]_vars

C3_Witness ==
    \E i \in Registers :
        /\ reqs[i].body = [name |-> NameGood, email |-> EmailLower, password |-> PasswordShort]
        /\ reqs[i].status = 400
        /\ users # <<>>

-----------------------------------------------------------------------------
(* C4: a schema-valid register request whose email the verifier flags    *)
(* (isTemporary, or not isValid) is answered 400, createUser is never    *)
(* called for it and it stores no record.                                *)
C4_FlaggedGives400 ==
    \A i \in Registers :
        (SchemaValid(i) /\ VerifierFlags(i)) =>
            /\ Done(i)
            /\ reqs[i].status = 400
            /\ Count(reqs[i].trace, "createUser") = 0
            /\ reqs[i].inserted = 0

C4_Witness ==
    \E i \in Registers :
        /\ SchemaValid(i)
        /\ reqs[i].api = "answered"
        /\ ~reqs[i].result.isTemporary /\ ~reqs[i].result.isValid
        /\ reqs[i].status = 400

-----------------------------------------------------------------------------
(* C5: when the outbound verification call fails, the verdict is the     *)
(* permissive one (isValid, not isTemporary), so the register request    *)
(* goes on to createUser; unless the email is already registered or the  *)
(* hashing fails, it is answered 201 and its record is in the store.     *)
C5_OutagePermissive ==
    \A i \in DOMAIN reqs :
        reqs[i].api = "failed" =>
            /\ reqs[i].result.isValid /\ ~reqs[i].result.isTemporary
            /\ i \in Registers =>
                /\ Count(reqs[i].trace, "createUser") = 1
                /\ (Done(i) /\ reqs[i].error = NoError) =>
                       /\ reqs[i].status = 201
                       /\ reqs[i].inserted \in DOMAIN users
                       /\ users[reqs[i].inserted].email = reqs[i].body.email
                /\ (Done(i) /\ reqs[i].error # NoError) =>
                       \/ IsDuplicateError(reqs[i].error) /\ reqs[i].status = 409
                       \/ IsHashError(reqs[i].error)

C5_Witness ==
    \E i \in Registers :
        /\ reqs[i].api = "failed"
        /\ reqs[i].status = 201
        /\ reqs[i].inserted \in DOMAIN users

-----------------------------------------------------------------------------
(* C6 as stated: every register call, the calls answered 400 included,    *)
(* makes exactly one outbound verification request; if the verdict passes *)
(* it calls createUser exactly once, after the verification request.      *)
C6_InsertAfterVerify(i) ==
    /\ Count(reqs[i].trace, "createUser") = (IF VerdictPasses(i) THEN 1 ELSE 0)
    /\ \A k \in DOMAIN reqs[i].trace :
           reqs[i].trace[k] = "createUser" =>
               \E v \in 1..(k - 1) : reqs[i].trace[v] = "verify"

C6_OneVerifyPerCall ==
    \A i \in Registers :
        /\ Count(reqs[i].trace, "verify") = 1
        /\ C6_InsertAfterVerify(i)

(* C6 amended: a register call whose body passes the schema makes exactly *)
(* one outbound verification request, a call the schema rejects makes     *)
(* none; if the verdict passes the call makes exactly one createUser      *)
(* call, after the verification request, and otherwise none.              *)
C6_OneVerifyPerValidCall ==
    \A i \in Registers :
        /\ Count(reqs[i].trace, "verify") = (IF SchemaValid(i) THEN 1 ELSE 0)
        /\ C6_InsertAfterVerify(i)

C6_Witness ==
    \E i, j \in Registers :
        /\ reqs[i].trace = <<"verify", "createUser">>
        /\ Done(i)
        /\ ~SchemaValid(j)
        /\ reqs[j].status = 400
        /\ reqs[j].trace = <<>>

-----------------------------------------------------------------------------
(* C7: a register failure that is neither a schema failure, nor an       *)
(* email-quality rejection, nor a duplicate email is answered 500; 400 is *)
(* answered only for schema and email-quality failures, 409 only for a    *)
(* duplicate email.                                                       *)
C7_UnexpectedGives500 ==
    \A i \in Registers :
        Done(i) =>
            /\ (reqs[i].error.type = "Error" /\ ~IsDuplicateError(reqs[i].error))
                   => reqs[i].status = 500
            /\ reqs[i].status = 400
                   => (reqs[i].error.type = "ZodError" \/ VerdictFlags(reqs[i].result))
            /\ reqs[i].status = 409 => IsDuplicateError(reqs[i].error)

-----------------------------------------------------------------------------
(* C8: a verify-email request whose email is missing or malformed is     *)
(* answered 400 and the verifier is not called.                          *)
C8_MalformedGives400 ==
    \A i \in Verifies :
        ~EmailOk(reqs[i].body) =>
            /\ reqs[i].status = 400
            /\ reqs[i].trace = <<>>

-----------------------------------------------------------------------------
(* C9: a verify-email request with a valid email is answered 400, with   *)
(* the verdict's isTemporary, isValid and risks, exactly when the verdict *)
(* of the verification client is temporary or invalid, and otherwise 200  *)
(* with isValid = true and isTemporary = false; an outage gives 200.      *)
C9_VerdictDecides ==
    \A i \in Verifies :
        (Done(i) /\ EmailOk(reqs[i].body)) =>
            LET v == reqs[i].result
                j == reqs[i].json
            IN  /\ reqs[i].status \in {200, 400}
                /\ reqs[i].status = 400 <=> (v.isTemporary \/ ~v.isValid)
                /\ reqs[i].status = 400 =>
                       /\ j.isTemporary = v.isTemporary
                       /\ j.isValid = v.isValid
                       /\ j.risks = (IF "risks" \in DOMAIN v THEN v.risks ELSE <<>>)
                /\ reqs[i].status = 200 => (j.isValid /\ ~j.isTemporary)
                /\ reqs[i].api = "failed" => reqs[i].status = 200

C9_Witness ==
    \E i, j \in Verifies :
        /\ reqs[i].status = 400 /\ reqs[i].json.risks = <<"no_mx">>
        /\ reqs[j].status = 200 /\ reqs[j].api = "failed"

-----------------------------------------------------------------------------
(* C10: the user object of a 201 answer has exactly the fields id, name, *)
(* email, verified and createdAt, each with the value of the stored      *)
(* record, and no password field.                                        *)
C10_NoPasswordInReply ==
    \A i \in Registers :
        reqs[i].status = 201 =>
            LET u == reqs[i].json.user
                stored == users[reqs[i].inserted]
            IN  /\ DOMAIN reqs[i].json = {"message", "user"}
                /\ DOMAIN u = {"id", "name", "email", "verified", "createdAt"}
                /\ \A f \in DOMAIN u : u[f] = stored[f]
                /\ "password" \notin DOMAIN u
                /\ stored.password = BcryptHash(reqs[i].body.password)

C10_Witness ==
    \E i \in Registers :
        /\ reqs[i].status = 201
        /\ reqs[i].json.user.email = EmailUpper
        /\ users[reqs[i].inserted].password = BcryptHash(PasswordGood)

-----------------------------------------------------------------------------
(* Vocabulary of the form properties *)

(* The step sends a registration request. *)
RegistrationSent == registering = <<>> /\ registering' # <<>>

(* The step is a blur that starts a verification call. *)
CallStarted ==
    \E e \in DOMAIN verifying : verifying' = [verifying EXCEPT ![e] = @ + 1]

(* The step is the arrival of the answer to a verification call. *)
CallAnswered ==
    \E e \in DOMAIN verifying :
        verifying[e] > 0 /\ verifying' = [verifying EXCEPT ![e] = @ - 1]

(* The step is the success of the registration request. *)
SubmitSucceeded ==
    registering # <<>> /\ registering' = <<>> /\ toast' = "Registration Successful!"

BlockingNotices == {"Terms Required", "Email Verification Required"}

-----------------------------------------------------------------------------
(* C11: a registration request is sent only by a submit made while the   *)
(* terms checkbox is set and the email status is valid; a submit in any  *)
(* other state sends nothing and shows a notice (one of the two blocking *)
(* toasts, or the field errors when the values fail the schema).         *)
C11_Step ==
    /\ RegistrationSent => (Submit /\ termsAccepted /\ emailStatus = "valid")
    /\ (Submit /\ ~(termsAccepted /\ emailStatus = "valid")) =>
           /\ registering' = registering
           /\ toast' \in BlockingNotices \/ errors' # {}

C11_SubmitGuarded == [][C11_Step]_vars

C11_Witness ==
    /\ registering # <<>>
    /\ registering[1] = values
    /\ toast = "Terms Required"
    /\ termsAccepted
    /\ emailStatus = "valid"

-----------------------------------------------------------------------------
(* C12 as stated: apart from the reset to idle on submit success, the    *)
(* email status changes only from idle to validating, by a blur that     *)
(* starts a verification call, and from validating to valid or invalid,  *)
(* by the answer to a call.                                               *)
C12_StepAsStated ==
    emailStatus' # emailStatus =>
        \/ emailStatus = "idle" /\ emailStatus' = "validating" /\ CallStarted
        \/ emailStatus = "validating" /\ emailStatus' \in {"valid", "invalid"} /\ CallAnswered
        \/ emailStatus' = "idle" /\ SubmitSucceeded

C12_OnlyForwardTransitions == [][C12_StepAsStated]_vars

(* C12 amended: the email status changes to validating only by a blur    *)
(* that starts a verification call, to valid or invalid only by the      *)
(* answer to a call, and to idle only by the reset on submit success,    *)
(* whatever the status was before; every such blur sets validating and   *)
(* every answer sets valid or invalid.                                    *)
C12_Step ==
    /\ emailStatus' # emailStatus =>
           \/ emailStatus' = "validating" /\ CallStarted
           \/ emailStatus' \in {"valid", "invalid"} /\ CallAnswered
           \/ emailStatus' = "idle" /\ SubmitSucceeded
    /\ CallStarted => emailStatus' = "validating"
    /\ CallAnswered => emailStatus' \in {"valid", "invalid"}

C12_TransitionsByCause == [][C12_Step]_vars

C12_Witness ==
    /\ emailStatus = "validating"
    /\ verified = EmailLower
    /\ verifying[EmailOther] = 1
    /\ InFlight(verifying) = 1

-----------------------------------------------------------------------------
(* C13: the success of a registration request resets every piece of      *)
(* local state: the three fields empty, email status idle, password      *)
(* strength 0, terms unset and the password-visibility toggle off.       *)
C13_Step ==
    SubmitSucceeded =>
        /\ values' = [name |-> <<>>, email |-> <<>>, password |-> <<>>]
        /\ emailStatus' = "idle"
        /\ passwordStrength' = 0
        /\ termsAccepted' = FALSE
        /\ showPassword' = FALSE

C13_SuccessResetsAll == [][C13_Step]_vars

-----------------------------------------------------------------------------
(* C14: the password-strength score is the number of the five checks     *)
(* (length of 8 or more, a lowercase letter, an uppercase letter, a      *)
(* digit, a symbol) that the current password value satisfies.           *)
C14_Satisfied(p) ==
    {c \in {"length", "lower", "upper", "digit", "symbol"} :
        \/ c = "length" /\ Len(p) >= 8
        \/ c = "lower" /\ Range(p) \cap Lower # {}
        \/ c = "upper" /\ Range(p) \cap Upper # {}
        \/ c = "digit" /\ Range(p) \cap Digits # {}
        \/ c = "symbol" /\ Range(p) \ (Lower \cup Upper \cup Digits) # {}}

C14_ScoreMatchesPassword ==
    /\ passwordStrength = Cardinality(C14_Satisfied(values.password))
    /\ passwordStrength \in 0..5

C14_Witness ==
    /\ values.password = PasswordShort
    /\ passwordStrength = 4
    /\ toast = "Registration Successful!"

-----------------------------------------------------------------------------
(* C15: whenever the email status is valid, the email in the field is    *)
(* the email that the verification endpoint last answered valid.         *)
C15_ValidMeansVerified ==
    emailStatus = "valid" => values.email = verified

====
